---- MODULE Spec2Model ----
(***************************************************************************)
(* Order / transaction lifecycle and stock-adjustment engine of the        *)
(* Raja Repair Cirebon shop application (client-side storage module,       *)
(* order form and transaction details dialog).                             *)
(*                                                                         *)
(* The store holds three collections that matter here: the categories,     *)
(* the product list and the transaction list.  Timestamps (createdAt,      *)
(* updatedAt), names, notes and payment fields take no part in any         *)
(* decision of the code modelled and are left out of the records.          *)
(***************************************************************************)
EXTENDS Integers, Sequences, FiniteSets, TLC

\* ---------------------------------------------------------------- bounds
MaxStock == 2
MaxQty == 1
MaxItems == 2
\* stored transactions: when the storage functions are called with any
\* status (Spec), and when the screens drive them (SpecUI)
MaxRecords == 1
MaxOrders == 2

\* ---------------------------------------------------------------- domains
ProductIds == {"p1", "p2"}

\* product codes, category ids and unit prices entered in the catalog forms
Codes == {"k1", "k2"}
CategoryIds == {"1", "2"}
Prices == {10, 20}

\* the two accounts the store starts with: the admin, whose type reads as
\* regular, and the customer, whom the user table has flagged vip
NoUser == [id |-> "", role |-> "", type |-> ""]
Users ==
  { [id |-> "1", role |-> "admin", type |-> "regular"],
    [id |-> "2", role |-> "user", type |-> "vip"] }
Actors == Users \cup {NoUser}

\* one browser session per account, named by the id of its user
Sessions == { u.id : u \in Users }
userOf(id) == CHOOSE u \in Users : u.id = id

TransactionType == {"in", "out"}

TransactionStatus ==
  { "pending", "payment_confirmed", "processing", "ready_for_pickup",
    "shipping", "completed", "cancelled" }

\* The stored delivery methods an order chooses between (one pick-up, one
\* courier); an inbound record carries no method and stores "".
\* includesPick is deliveryMethodName.toLowerCase().includes('pick').
DeliveryMethodIds == {"1", "2"}
\* the dialog's deliveryMethodName state: "" until a record with a delivery
\* method is shown, then the stored method's name, or 'Unknown'
deliveryMethodName(deliveryMethodId) ==
  CASE deliveryMethodId = "" -> ""
    [] deliveryMethodId = "1" -> "Pick-up"
    [] deliveryMethodId = "2" -> "Regular Shipping"
    [] deliveryMethodId = "3" -> "Express Shipping"
    [] OTHER -> "Unknown"
includesPick(name) == name = "Pick-up"

\* the cost of a stored delivery method
deliveryMethodCost(deliveryMethodId) ==
  CASE deliveryMethodId = "1" -> 0
    [] deliveryMethodId = "2" -> 15000
    [] deliveryMethodId = "3" -> 30000
    [] OTHER -> 0

TrackingNumbers == {"JNE1"}
\* what the shipping form's input can hold when the button is pressed
TrackingInputs == TrackingNumbers \cup {""}

\* the lines of the order form (values.items)
TransactionItem == [productId : ProductIds, quantity : 1..MaxQty]
ItemLists == UNION { [1..n -> TransactionItem] : n \in 1..MaxItems }

VARIABLES
  categories,    \* stored category collection: the ids
  products,      \* stored product collection: id -> [code, categoryId, price,
                 \*   vipPrice, stock]; vipPrice 0 stands for none set
  transactions,  \* stored transaction collection, in insertion order
  netRuns,       \* per transaction: runs of updateStockFromTransaction
                 \*   minus runs of reverseTransactionStockEffects
  last,          \* the operation performed by the last step and its outcome
  before,        \* the product collection before the last step when that
                 \*   step ran updateStockFromTransaction, else as it is now
  views          \* per session (by the id of its user): the transaction list
                 \*   its page loaded last

vars == <<categories, products, transactions, netRuns, last, before, views>>

\* ---------------------------------------------------------------- ledger
\* applyItem without the floor at 0
applyItemNoClamp(type, item, prods) ==
  IF item.productId \in DOMAIN prods
    THEN IF type = "in"
           THEN [prods EXCEPT ![item.productId].stock = @ + item.quantity]
           ELSE IF type = "out"
             THEN [prods EXCEPT ![item.productId].stock = @ - item.quantity]
             ELSE prods
    ELSE prods

\* one iteration of the forEach loop of updateStockFromTransaction
applyItem(type, item, prods) ==
  IF item.productId \in DOMAIN prods
    THEN IF type = "in"
           THEN [prods EXCEPT ![item.productId].stock = @ + item.quantity]
           ELSE IF type = "out"
             THEN [prods EXCEPT ![item.productId].stock =
                     IF @ - item.quantity < 0 THEN 0 ELSE @ - item.quantity]
             ELSE prods
    ELSE prods

\* one iteration of the forEach loop of reverseTransactionStockEffects
reverseItem(type, item, prods) ==
  IF item.productId \in DOMAIN prods
    THEN IF type = "in"
           THEN [prods EXCEPT ![item.productId].stock =
                   IF @ - item.quantity < 0 THEN 0 ELSE @ - item.quantity]
           ELSE IF type = "out"
             THEN [prods EXCEPT ![item.productId].stock = @ + item.quantity]
             ELSE prods
    ELSE prods

RECURSIVE applyItems(_, _, _, _)
applyItems(type, items, i, prods) ==
  IF i > Len(items) THEN prods
  ELSE applyItems(type, items, i + 1, applyItem(type, items[i], prods))

RECURSIVE reverseItems(_, _, _, _)
reverseItems(type, items, i, prods) ==
  IF i > Len(items) THEN prods
  ELSE reverseItems(type, items, i + 1, reverseItem(type, items[i], prods))

updateStockFromTransaction(transaction, prods) ==
  IF transaction.status # "completed" THEN prods
  ELSE applyItems(transaction.type, transaction.items, 1, prods)

reverseTransactionStockEffects(transaction, prods) ==
  IF transaction.status # "completed" THEN prods
  ELSE reverseItems(transaction.type, transaction.items, 1, prods)

\* the stock check as the form's first step writes it: a line whose product
\* is not found passes
canProcessTransactionFoundOnly(transaction, prods) ==
  IF transaction.type = "out"
    THEN \A i \in 1..Len(transaction.items) :
           LET item == transaction.items[i] IN
             ~ ( item.productId \in DOMAIN prods
                 /\ prods[item.productId].stock < item.quantity )
    ELSE TRUE

\* the stock check comparing with <= where the code has <
canProcessTransactionStrict(transaction, prods) ==
  IF transaction.type = "out"
    THEN \A i \in 1..Len(transaction.items) :
           LET item == transaction.items[i] IN
             ~ ( item.productId \notin DOMAIN prods
                 \/ prods[item.productId].stock + 1 < item.quantity )
    ELSE TRUE

canProcessTransaction(transaction, prods) ==
  IF transaction.type = "out"
    THEN \A i \in 1..Len(transaction.items) :
           LET item == transaction.items[i] IN
             ~ ( item.productId \notin DOMAIN prods
                 \/ prods[item.productId].stock < item.quantity )
    ELSE TRUE

\* ---------------------------------------------------------------- storage
\* transactions.findIndex(t => t.id === id); 0 stands for -1
findIndex(txs, id) ==
  IF \E i \in 1..Len(txs) : txs[i].id = id
    THEN CHOOSE i \in 1..Len(txs) :
           txs[i].id = id /\ \A j \in 1..(i - 1) : txs[j].id # id
    ELSE 0

\* addTransaction storing the record without touching the stock
addTransactionNoStock(transaction, txs, prods) ==
  [ transactions |-> Append(txs, transaction),
    products |-> prods,
    ran |-> "none" ]

\* result: the collections as written, the value returned, and which ledger
\* routine the call ran ("apply", "reverse" or "none")
addTransaction(transaction, txs, prods) ==
  [ transactions |-> Append(txs, transaction),
    products |-> IF transaction.status = "completed"
                   THEN updateStockFromTransaction(transaction, prods)
                   ELSE prods,
    ran |-> IF transaction.status = "completed" THEN "apply" ELSE "none" ]

\* updateTransaction handing the new record, not the stored one, to the
\* reversal
updateTransactionReverseNew(updatedTransaction, txs, prods) ==
  LET index == findIndex(txs, updatedTransaction.id) IN
    IF index # 0
      THEN LET oldTransaction == txs[index] IN
        IF oldTransaction.status # "completed"
           /\ updatedTransaction.status = "completed"
          THEN [ ok |-> TRUE,
                 transactions |-> [txs EXCEPT ![index] = updatedTransaction],
                 products |-> updateStockFromTransaction(updatedTransaction, prods),
                 ran |-> "apply" ]
          ELSE IF oldTransaction.status = "completed"
                  /\ updatedTransaction.status # "completed"
            THEN [ ok |-> TRUE,
                   transactions |-> [txs EXCEPT ![index] = updatedTransaction],
                   products |-> reverseTransactionStockEffects(updatedTransaction, prods),
                   ran |-> "reverse" ]
            ELSE [ ok |-> TRUE,
                   transactions |-> [txs EXCEPT ![index] = updatedTransaction],
                   products |-> prods,
                   ran |-> "none" ]
      ELSE [ ok |-> FALSE, transactions |-> txs, products |-> prods,
             ran |-> "none" ]

\* updateTransaction putting the items back in stock when an order is
\* cancelled
updateTransactionRestockOnCancel(updatedTransaction, txs, prods) ==
  LET index == findIndex(txs, updatedTransaction.id) IN
    IF index # 0
      THEN LET oldTransaction == txs[index] IN
        IF oldTransaction.status # "completed"
           /\ updatedTransaction.status = "completed"
          THEN [ ok |-> TRUE,
                 transactions |-> [txs EXCEPT ![index] = updatedTransaction],
                 products |-> updateStockFromTransaction(updatedTransaction, prods),
                 ran |-> "apply" ]
          ELSE IF oldTransaction.status = "completed"
                  /\ updatedTransaction.status # "completed"
            THEN [ ok |-> TRUE,
                   transactions |-> [txs EXCEPT ![index] = updatedTransaction],
                   products |-> reverseTransactionStockEffects(oldTransaction, prods),
                   ran |-> "reverse" ]
            ELSE IF updatedTransaction.status = "cancelled"
              THEN [ ok |-> TRUE,
                     transactions |-> [txs EXCEPT ![index] = updatedTransaction],
                     products |-> reverseTransactionStockEffects(
                                    [oldTransaction EXCEPT !.status = "completed"],
                                    prods),
                     ran |-> "none" ]
              ELSE [ ok |-> TRUE,
                     transactions |-> [txs EXCEPT ![index] = updatedTransaction],
                     products |-> prods,
                     ran |-> "none" ]
      ELSE [ ok |-> FALSE, transactions |-> txs, products |-> prods,
             ran |-> "none" ]

\* updateTransaction applying the stock effect on every write of a completed
\* record, whatever the stored status
updateTransactionNoOldCheck(updatedTransaction, txs, prods) ==
  LET index == findIndex(txs, updatedTransaction.id) IN
    IF index # 0
      THEN LET oldTransaction == txs[index] IN
        IF updatedTransaction.status = "completed"
          THEN [ ok |-> TRUE,
                 transactions |-> [txs EXCEPT ![index] = updatedTransaction],
                 products |-> updateStockFromTransaction(updatedTransaction, prods),
                 ran |-> "apply" ]
          ELSE IF oldTransaction.status = "completed"
            THEN [ ok |-> TRUE,
                   transactions |-> [txs EXCEPT ![index] = updatedTransaction],
                   products |-> reverseTransactionStockEffects(oldTransaction, prods),
                   ran |-> "reverse" ]
            ELSE [ ok |-> TRUE,
                   transactions |-> [txs EXCEPT ![index] = updatedTransaction],
                   products |-> prods,
                   ran |-> "none" ]
      ELSE [ ok |-> FALSE, transactions |-> txs, products |-> prods,
             ran |-> "none" ]

\* updateTransaction taking the stored record out of the list and pushing
\* the new one at its end
updateTransactionMoveToEnd(updatedTransaction, txs, prods) ==
  LET index == findIndex(txs, updatedTransaction.id)
      moved == Append(SelectSeq(txs, LAMBDA t : t.id # updatedTransaction.id),
                      updatedTransaction)
  IN
    IF index # 0
      THEN LET oldTransaction == txs[index] IN
        IF oldTransaction.status # "completed"
           /\ updatedTransaction.status = "completed"
          THEN [ ok |-> TRUE,
                 transactions |-> moved,
                 products |-> updateStockFromTransaction(updatedTransaction, prods),
                 ran |-> "apply" ]
          ELSE IF oldTransaction.status = "completed"
                  /\ updatedTransaction.status # "completed"
            THEN [ ok |-> TRUE,
                   transactions |-> moved,
                   products |-> reverseTransactionStockEffects(oldTransaction, prods),
                   ran |-> "reverse" ]
            ELSE [ ok |-> TRUE,
                   transactions |-> moved,
                   products |-> prods,
                   ran |-> "none" ]
      ELSE [ ok |-> FALSE, transactions |-> txs, products |-> prods,
             ran |-> "none" ]

\* updateTransaction storing a record it does not find as a new one
updateTransactionUpsert(updatedTransaction, txs, prods) ==
  LET index == findIndex(txs, updatedTransaction.id) IN
    IF index # 0
      THEN LET oldTransaction == txs[index] IN
        IF oldTransaction.status # "completed"
           /\ updatedTransaction.status = "completed"
          THEN [ ok |-> TRUE,
                 transactions |-> [txs EXCEPT ![index] = updatedTransaction],
                 products |-> updateStockFromTransaction(updatedTransaction, prods),
                 ran |-> "apply" ]
          ELSE IF oldTransaction.status = "completed"
                  /\ updatedTransaction.status # "completed"
            THEN [ ok |-> TRUE,
                   transactions |-> [txs EXCEPT ![index] = updatedTransaction],
                   products |-> reverseTransactionStockEffects(oldTransaction, prods),
                   ran |-> "reverse" ]
            ELSE [ ok |-> TRUE,
                   transactions |-> [txs EXCEPT ![index] = updatedTransaction],
                   products |-> prods,
                   ran |-> "none" ]
      ELSE [ ok |-> TRUE, transactions |-> Append(txs, updatedTransaction),
             products |-> prods, ran |-> "none" ]

updateTransaction(updatedTransaction, txs, prods) ==
  LET index == findIndex(txs, updatedTransaction.id) IN
    IF index # 0
      THEN LET oldTransaction == txs[index] IN
        IF oldTransaction.status # "completed"
           /\ updatedTransaction.status = "completed"
          THEN [ ok |-> TRUE,
                 transactions |-> [txs EXCEPT ![index] = updatedTransaction],
                 products |-> updateStockFromTransaction(updatedTransaction, prods),
                 ran |-> "apply" ]
          ELSE IF oldTransaction.status = "completed"
                  /\ updatedTransaction.status # "completed"
            THEN [ ok |-> TRUE,
                   transactions |-> [txs EXCEPT ![index] = updatedTransaction],
                   products |-> reverseTransactionStockEffects(oldTransaction, prods),
                   ran |-> "reverse" ]
            ELSE [ ok |-> TRUE,
                   transactions |-> [txs EXCEPT ![index] = updatedTransaction],
                   products |-> prods,
                   ran |-> "none" ]
      ELSE [ ok |-> FALSE, transactions |-> txs, products |-> prods,
             ran |-> "none" ]

\* updateTransactionStatus refreshing each line's price from the catalog
updateTransactionStatusRepriced(transactionId, status, txs, prods) ==
  LET index == findIndex(txs, transactionId) IN
    IF index # 0
      THEN LET items == txs[index].items
               repriced ==
                 [ k \in 1..Len(items) |->
                     [ productId |-> items[k].productId,
                       quantity |-> items[k].quantity,
                       priceAtTransaction |->
                         IF items[k].productId \in DOMAIN prods
                           THEN prods[items[k].productId].price
                           ELSE items[k].priceAtTransaction ] ]
           IN updateTransaction(
                [txs[index] EXCEPT !.status = status, !.items = repriced],
                txs, prods)
      ELSE [ ok |-> FALSE, transactions |-> txs, products |-> prods,
             ran |-> "none" ]

updateTransactionStatus(transactionId, status, txs, prods) ==
  LET index == findIndex(txs, transactionId) IN
    IF index # 0
      THEN updateTransaction([txs[index] EXCEPT !.status = status], txs, prods)
      ELSE [ ok |-> FALSE, transactions |-> txs, products |-> prods,
             ran |-> "none" ]

deleteProduct(productId, prods) ==
  [p \in (DOMAIN prods) \ {productId} |-> prods[p]]

\* ---------------------------------------------------------------- pricing
\* getPriceForUser(product, userType), the price the cart and the checkout
\* summary show: the vip price for a vip user when the product has one
resolveUnitPrice(product, userTier) ==
  IF userTier = "vip" /\ product.vipPrice # 0
    THEN product.vipPrice
    ELSE product.price

\* ---------------------------------------------------------------- catalog
\* products.some(p => p.categoryId === categoryId)
categoryUsed(categoryId, prods) ==
  \E p \in DOMAIN prods : prods[p].categoryId = categoryId

\* deleteCategory without the scan of the products
deleteCategoryNoScan(categoryId, cats, prods) ==
  IF categoryId \in cats
    THEN [ok |-> TRUE, categories |-> cats \ {categoryId}]
    ELSE [ok |-> FALSE, categories |-> cats]

deleteCategory(categoryId, cats, prods) ==
  IF categoryUsed(categoryId, prods)
    THEN [ok |-> FALSE, categories |-> cats]
    ELSE IF categoryId \in cats
      THEN [ok |-> TRUE, categories |-> cats \ {categoryId}]
      ELSE [ok |-> FALSE, categories |-> cats]

addCategory(categoryId, cats) == cats \cup {categoryId}

\* generateId(): an id no stored product has
generateId(prods) == CHOOSE p \in ProductIds : p \notin DOMAIN prods

\* products.push(product), the product carrying the id it was built with
addProduct(productId, product, prods) ==
  [p \in (DOMAIN prods) \cup {productId} |->
     IF p = productId THEN product ELSE prods[p]]

updateProduct(productId, updatedProduct, prods) ==
  IF productId \in DOMAIN prods
    THEN [prods EXCEPT ![productId] = updatedProduct]
    ELSE prods

\* one iteration of the forEach loop of addMultipleProducts: the row is
\* matched by code against the products as they were read
RECURSIVE addMultipleProducts(_, _, _)
addMultipleProducts(newProducts, prods, updatedProducts) ==
  IF newProducts = <<>> THEN updatedProducts
  ELSE
    LET newProduct == Head(newProducts)
        existing == { p \in DOMAIN prods : prods[p].code = newProduct.code }
    IN addMultipleProducts(
         Tail(newProducts), prods,
         IF existing # {}
           THEN LET p == CHOOSE q \in existing : TRUE IN
                  [updatedProducts EXCEPT
                     ![p].categoryId = newProduct.categoryId,
                     ![p].price = newProduct.price,
                     ![p].stock = newProduct.stock]
           ELSE addProduct(generateId(updatedProducts), newProduct,
                           updatedProducts))

\* ---------------------------------------------------------------- details dialog
\* the can* predicates of TransactionDetails, on its transaction prop and
\* the current user it loaded
canConfirmPayment(transaction, currentUser) ==
  /\ transaction.type = "out"
  /\ transaction.status = "pending"
  /\ currentUser.id = transaction.userId

canProcess(transaction, currentUser) ==
  /\ transaction.type = "out"
  /\ transaction.status = "payment_confirmed"
  /\ currentUser.role = "admin"

canMarkAsReady(transaction, currentUser) ==
  /\ transaction.type = "out"
  /\ transaction.status = "processing"
  /\ currentUser.role = "admin"
  /\ includesPick(deliveryMethodName(transaction.deliveryMethodId))

\* canMarkAsShipping without the test of the delivery method
canMarkAsShippingAnyMethod(transaction, currentUser) ==
  /\ transaction.type = "out"
  /\ transaction.status = "processing"
  /\ currentUser.role = "admin"

canMarkAsShipping(transaction, currentUser) ==
  /\ transaction.type = "out"
  /\ transaction.status = "processing"
  /\ currentUser.role = "admin"
  /\ ~ includesPick(deliveryMethodName(transaction.deliveryMethodId))

\* canCompleteTransaction written for the pick-up branch alone
canCompleteTransactionPickupOnly(transaction, currentUser) ==
  /\ transaction.type = "out"
  /\ transaction.status = "ready_for_pickup"
  /\ currentUser.role = "admin"

canCompleteTransaction(transaction, currentUser) ==
  /\ transaction.type = "out"
  /\ (transaction.status = "ready_for_pickup" \/ transaction.status = "shipping")
  /\ currentUser.role = "admin"

\* canCancelTransaction without the test of the acting user
canCancelTransactionAnyone(transaction, currentUser) ==
  \/ transaction.status = "pending"
  \/ transaction.status = "payment_confirmed"
  \/ transaction.status = "processing"

\* canCancelTransaction offering the cancellation on a completed order too
canCancelTransactionLate(transaction, currentUser) ==
  /\ ( transaction.status = "pending"
       \/ transaction.status = "payment_confirmed"
       \/ transaction.status = "processing"
       \/ transaction.status = "completed" )
  /\ (currentUser.role = "admin" \/ currentUser.id = transaction.userId)

canCancelTransaction(transaction, currentUser) ==
  /\ ( transaction.status = "pending"
       \/ transaction.status = "payment_confirmed"
       \/ transaction.status = "processing" )
  /\ (currentUser.role = "admin" \/ currentUser.id = transaction.userId)

\* ---------------------------------------------------------------- steps
\* every line of the order names a stored product holding at least the
\* quantity of that line
Sufficient(items, prods) ==
  \A i \in 1..Len(items) :
    /\ items[i].productId \in DOMAIN prods
    /\ prods[items[i].productId].stock >= items[i].quantity

\* units of product p over all lines of an order
RECURSIVE Total(_, _)
Total(items, p) ==
  IF items = <<>> THEN 0
  ELSE (IF Head(items).productId = p THEN Head(items).quantity ELSE 0)
       + Total(Tail(items), p)

\* subtracting the lines from the stored products hits the floor of 0
Clamps(items, prods) ==
  \E p \in DOMAIN prods : Total(items, p) > prods[p].stock

WriteOps ==
  { "updateTransactionStatus", "updateTransaction", "confirmPayment",
    "processOrder", "markAsReady", "markAsShipping", "completeOrder",
    "cancelOrder" }

\* arg is the category or product a catalog operation was called on
NoOp ==
  [ op |-> "init", id |-> 0, arg |-> "", type |-> "", from |-> "",
    ok |-> FALSE, toast |-> "", sufficient |-> FALSE, clamped |-> FALSE,
    after |-> "" ]

\* the step before this one moved transaction id from a status other than
\* completed to completed, and this one moves it back
followsCompletion(id, from, to) ==
  /\ last.ok /\ last.id = id /\ last.op \in WriteOps
  /\ last.from # "completed"
  /\ from = "completed" /\ to # "completed"

bump(runs, index, ran) ==
  IF index = 0 THEN runs
  ELSE [runs EXCEPT ![index] =
          IF ran = "apply" THEN @ + 1 ELSE IF ran = "reverse" THEN @ - 1 ELSE @]

\* the catalog entry of a product as the shop entered it, holding stock
\* units; the second product has no vip price
Catalogued(productId, stock) ==
  [ code |-> IF productId = "p1" THEN "k1" ELSE "k2",
    categoryId |-> "1",
    price |-> IF productId = "p1" THEN 10 ELSE 20,
    vipPrice |-> IF productId = "p1" THEN 8 ELSE 0,
    stock |-> stock ]

Init ==
  /\ categories = CategoryIds
  /\ products \in
       UNION { { [p \in S |-> Catalogued(p, stock[p])] :
                 stock \in [S -> 0..MaxStock] } : S \in SUBSET ProductIds }
  /\ transactions = <<>>
  /\ netRuns = <<>>
  /\ last = NoOp
  /\ before = products
  /\ views = [id \in Sessions |-> <<>>]

\* the form's products state, loaded when it is shown: for an order, the
\* stored products with stock > 0
formProducts(type, prods) ==
  [ p \in { q \in DOMAIN prods : type = "out" => prods[q].stock > 0 }
      |-> prods[p] ]

\* product?.price || 0
priceOrZero(productId, formProds) ==
  IF productId \in DOMAIN formProds THEN formProds[productId].price ELSE 0

\* values.items.map(...) of onSubmit
transactionItems(items, formProds) ==
  [ i \in 1..Len(items) |->
      [ productId |-> items[i].productId,
        quantity |-> items[i].quantity,
        priceAtTransaction |-> priceOrZero(items[i].productId, formProds) ] ]

RECURSIVE calculateTotal(_, _)
calculateTotal(items, formProds) ==
  IF items = <<>> THEN 0
  ELSE priceOrZero(Head(items).productId, formProds) * Head(items).quantity
       + calculateTotal(Tail(items), formProds)

\* the form's deliveryCost state at submission: set by goToPaymentStep to
\* the cost of the method selected, and left at 0 when the step is skipped
\* (in) or no stored method is selected
deliveryCost(type, deliveryMethodId) ==
  IF type = "in" THEN 0
  ELSE IF deliveryMethodId \in {"1", "2", "3"}
    THEN deliveryMethodCost(deliveryMethodId)
    ELSE 0

\* the total of onSubmit leaving the delivery cost out
totalAmountNoDelivery(type, subtotal, cost) == subtotal

\* the total of onSubmit
totalAmount(type, subtotal, cost) ==
  IF type = "out" THEN subtotal + cost ELSE subtotal

\* the status of onSubmit with every record starting as pending
initialStatusPending(type) == "pending"

\* the status a new record is stored with
initialStatus(type) == IF type = "in" THEN "completed" ELSE "pending"

\* TransactionForm.onSubmit
OnSubmit(currentUser, type, items, deliveryMethodId) ==
  LET formProds == formProducts(type, products)
      newItems == transactionItems(items, formProds)
      newTransaction ==
        [ id |-> Len(transactions) + 1,
          type |-> type,
          items |-> newItems,
          totalAmount |-> totalAmount(type, calculateTotal(newItems, formProds),
                                      deliveryCost(type, deliveryMethodId)),
          userId |-> currentUser.id,
          status |-> initialStatus(type),
          deliveryMethodId |-> deliveryMethodId,
          trackingNumber |-> "" ]
      toast ==
        IF currentUser = NoUser THEN "Authentication error"
        ELSE IF type = "out" /\ ~ canProcessTransaction(newTransaction, products)
          THEN "Insufficient stock"
          ELSE IF type = "in" THEN "Transaction successful"
               ELSE "Order placed successfully"
      rejected == toast \in {"Authentication error", "Insufficient stock"}
      r == addTransaction(newTransaction, transactions, products)
  IN
    /\ last' = [ op |-> "onSubmit",
                 id |-> IF rejected THEN 0 ELSE newTransaction.id,
                 arg |-> "", type |-> type, from |-> "", ok |-> ~ rejected, toast |-> toast,
                 sufficient |-> Sufficient(items, products),
                 clamped |-> FALSE, after |-> "" ]
    /\ IF rejected
         THEN /\ UNCHANGED <<products, transactions, netRuns>>
              /\ before' = products
         ELSE /\ transactions' = r.transactions
              /\ products' = r.products
              /\ netRuns' = Append(netRuns, IF r.ran = "apply" THEN 1 ELSE 0)
              /\ before' = IF r.ran = "apply" THEN products ELSE r.products
    /\ UNCHANGED categories

\* the common tail of every step that writes a transaction: r is what the
\* storage function called returned and wrote
Written(op, id, to, r) ==
  LET index == findIndex(transactions, id)
      old == transactions[index]
      from == IF index = 0 THEN "" ELSE old.status
  IN
    /\ transactions' = r.transactions
    /\ products' = r.products
    /\ netRuns' = bump(netRuns, index, r.ran)
    /\ before' = IF r.ran = "apply" THEN products ELSE r.products
    /\ UNCHANGED categories
    /\ last' = [ op |-> op, id |-> id, arg |-> "",
                 type |-> IF index = 0 THEN "" ELSE old.type,
                 from |-> from, ok |-> r.ok, toast |-> "",
                 sufficient |-> FALSE,
                 clamped |->
                   \/ /\ r.ran = "apply" /\ old.type = "out"
                      /\ Clamps(r.transactions[index].items, products)
                   \/ /\ r.ran = "reverse" /\ old.type = "in"
                      /\ Clamps(old.items, products),
                 after |->
                   IF r.ok /\ followsCompletion(id, from, to)
                     THEN (IF last.clamped THEN "clamped" ELSE "exact")
                     ELSE "" ]

\* a call of the exported updateTransactionStatus
UpdateTransactionStatus(transactionId, status) ==
  Written("updateTransactionStatus", transactionId, status,
          updateTransactionStatus(transactionId, status, transactions, products))

\* a call of the exported updateTransaction with a copy of a stored record
\* carrying a status and a tracking number, as the shipping form builds it
UpdateTransaction(index, status, trackingNumber) ==
  /\ index \in 1..Len(transactions)
  /\ LET updatedTransaction ==
           [transactions[index] EXCEPT !.status = status,
                                       !.trackingNumber = trackingNumber]
     IN Written("updateTransaction", updatedTransaction.id, status,
                updateTransaction(updatedTransaction, transactions, products))

\* a call of the exported updateTransaction with a record whose id no stored
\* transaction has
UpdateUnstoredTransaction(id, type, status) ==
  /\ findIndex(transactions, id) = 0
  /\ LET updatedTransaction ==
           [ id |-> id, type |-> type,
             items |-> << [ productId |-> "p1", quantity |-> 1,
                            priceAtTransaction |-> 10 ] >>,
             totalAmount |-> 10, userId |-> "1", status |-> status,
             deliveryMethodId |-> "", trackingNumber |-> "" ]
     IN Written("updateTransaction", id, status,
                updateTransaction(updatedTransaction, transactions, products))

\* product table: delete
DeleteProduct(productId) ==
  /\ productId \in DOMAIN products
  /\ products' = deleteProduct(productId, products)
  /\ before' = products'
  /\ last' = [NoOp EXCEPT !.op = "deleteProduct", !.ok = TRUE]
  /\ UNCHANGED <<categories, transactions, netRuns>>

\* CategoryTable.handleDelete on the selected category
HandleDelete(categoryId) ==
  LET r == deleteCategory(categoryId, categories, products) IN
    /\ categories' = r.categories
    /\ last' = [NoOp EXCEPT !.op = "deleteCategory", !.arg = categoryId,
                            !.ok = r.ok,
                            !.toast = IF r.ok THEN "Category deleted"
                                      ELSE "Cannot delete category"]
    /\ before' = products
    /\ UNCHANGED <<products, transactions, netRuns>>

\* category form: a new category
AddCategory(categoryId) ==
  /\ categories' = addCategory(categoryId, categories)
  /\ last' = [NoOp EXCEPT !.op = "addCategory", !.arg = categoryId, !.ok = TRUE]
  /\ before' = products
  /\ UNCHANGED <<products, transactions, netRuns>>

\* what the product form and a row of the import file hold
ProductValues ==
  [code : Codes, categoryId : CategoryIds, price : Prices, stock : 0..MaxStock]

\* ProductForm.onSubmit: productId is the product edited, "" for a new one
ProductFormOnSubmit(productId, values) ==
  /\ IF productId # ""
       THEN LET product == products[productId]
                updatedProduct ==
                  [product EXCEPT !.code = values.code,
                                  !.categoryId = values.categoryId,
                                  !.price = values.price,
                                  !.stock = values.stock]
            IN products' = updateProduct(productId, updatedProduct, products)
       ELSE LET newProduct ==
                  [ code |-> values.code, categoryId |-> values.categoryId,
                    price |-> values.price, vipPrice |-> 0,
                    stock |-> values.stock ]
            IN products' = addProduct(generateId(products), newProduct, products)
  /\ before' = products'
  /\ last' = [NoOp EXCEPT !.op = "productForm", !.ok = TRUE,
                          !.arg = IF productId # "" THEN productId
                                  ELSE generateId(products)]
  /\ UNCHANGED <<categories, transactions, netRuns>>

\* ProductImport.onSubmit: the rows parsed from the file, each a product
\* built by parseProductsFromCSV
ProductImportOnSubmit(rows) ==
  LET newProducts ==
        [ i \in 1..Len(rows) |->
            [ code |-> rows[i].code, categoryId |-> rows[i].categoryId,
              price |-> rows[i].price, vipPrice |-> 0,
              stock |-> rows[i].stock ] ]
  IN
    /\ products' = addMultipleProducts(newProducts, products, products)
    /\ before' = products'
    /\ last' = [NoOp EXCEPT !.op = "productImport", !.ok = TRUE]
    /\ UNCHANGED <<categories, transactions, netRuns>>

\* TransactionDetails.handleStatusChange(newStatus), reached through the
\* button the can* predicate shows; transaction is the dialog's prop
handleStatusChange(op, transaction, newStatus) ==
  Written(op, transaction.id, newStatus,
          updateTransactionStatus(transaction.id, newStatus, transactions, products))

ConfirmPayment(currentUser, transaction) ==
  /\ canConfirmPayment(transaction, currentUser)
  /\ handleStatusChange("confirmPayment", transaction, "payment_confirmed")

ProcessOrder(currentUser, transaction) ==
  /\ canProcess(transaction, currentUser)
  /\ handleStatusChange("processOrder", transaction, "processing")

MarkAsReady(currentUser, transaction) ==
  /\ canMarkAsReady(transaction, currentUser)
  /\ handleStatusChange("markAsReady", transaction, "ready_for_pickup")

\* shipping-form onSubmit with a tracking-number input that is not required
MarkAsShippingNotRequired(currentUser, transaction, trackingNumber) ==
  /\ canMarkAsShipping(transaction, currentUser)
  /\ LET updatedTransaction ==
           [transaction EXCEPT !.trackingNumber = trackingNumber,
                               !.status = "shipping"]
     IN Written("markAsShipping", transaction.id, "shipping",
                updateTransaction(updatedTransaction, transactions, products))

\* shipping-form onSubmit; the form submits only when its required
\* tracking-number input is filled
MarkAsShipping(currentUser, transaction, trackingNumber) ==
  /\ canMarkAsShipping(transaction, currentUser)
  /\ trackingNumber # ""
  /\ LET updatedTransaction ==
           [transaction EXCEPT !.trackingNumber = trackingNumber,
                               !.status = "shipping"]
     IN Written("markAsShipping", transaction.id, "shipping",
                updateTransaction(updatedTransaction, transactions, products))

CompleteOrder(currentUser, transaction) ==
  /\ canCompleteTransaction(transaction, currentUser)
  /\ handleStatusChange("completeOrder", transaction, "completed")

CancelOrder(currentUser, transaction) ==
  /\ canCancelTransaction(transaction, currentUser)
  /\ handleStatusChange("cancelOrder", transaction, "cancelled")

\* ---------------------------------------------------------------- legacy storage
\* the older storage module: its updateStockFromTransaction has no status
\* test, so it is the forEach loop alone
legacyUpdateStockFromTransaction(transaction, prods) ==
  applyItems(transaction.type, transaction.items, 1, prods)

legacyReverseTransactionStockEffects(transaction, prods) ==
  IF transaction.status # "completed" THEN prods
  ELSE reverseItems(transaction.type, transaction.items, 1, prods)

\* net is the number of runs of the apply loop minus the runs of the
\* reverse loop made by the call
legacyAddTransaction(transaction, txs, prods) ==
  [ transactions |-> Append(txs, transaction),
    products |-> legacyUpdateStockFromTransaction(transaction, prods),
    net |-> 1 ]

legacyUpdateTransaction(updatedTransaction, txs, prods) ==
  LET index == findIndex(txs, updatedTransaction.id) IN
    IF index # 0
      THEN LET reversed ==
                 legacyReverseTransactionStockEffects(txs[index], prods)
               reversals == IF txs[index].status = "completed" THEN 1 ELSE 0
           IN IF updatedTransaction.status = "completed"
                THEN [ ok |-> TRUE,
                       transactions |-> [txs EXCEPT ![index] = updatedTransaction],
                       products |-> legacyUpdateStockFromTransaction(
                                      updatedTransaction, reversed),
                       net |-> 1 - reversals ]
                ELSE [ ok |-> TRUE,
                       transactions |-> [txs EXCEPT ![index] = updatedTransaction],
                       products |-> reversed,
                       net |-> 0 - reversals ]
      ELSE [ ok |-> FALSE, transactions |-> txs, products |-> prods,
             net |-> 0 ]

\* a call of the legacy addTransaction with a new record
LegacyAddTransaction(type, items, status) ==
  LET newTransaction ==
        [ id |-> Len(transactions) + 1,
          type |-> type,
          items |-> transactionItems(items, products),
          totalAmount |-> calculateTotal(transactionItems(items, products),
                                         products),
          userId |-> "1",
          status |-> status,
          deliveryMethodId |-> "",
          trackingNumber |-> "" ]
      r == legacyAddTransaction(newTransaction, transactions, products)
  IN
    /\ transactions' = r.transactions
    /\ products' = r.products
    /\ netRuns' = Append(netRuns, r.net)
    /\ before' = products
    /\ last' = [NoOp EXCEPT !.op = "legacyAddTransaction",
                            !.id = newTransaction.id, !.type = type,
                            !.ok = TRUE]
    /\ UNCHANGED categories

\* a call of the legacy updateTransaction with a copy of a stored record
\* carrying a new status
LegacyUpdateTransaction(index, status) ==
  /\ index \in 1..Len(transactions)
  /\ LET updatedTransaction == [transactions[index] EXCEPT !.status = status]
         r == legacyUpdateTransaction(updatedTransaction, transactions,
                                      products)
     IN
       /\ transactions' = r.transactions
       /\ products' = r.products
       /\ netRuns' = [netRuns EXCEPT ![index] = @ + r.net]
       /\ before' = products
       /\ last' = [NoOp EXCEPT !.op = "legacyUpdateTransaction",
                               !.id = updatedTransaction.id,
                               !.type = transactions[index].type,
                               !.from = transactions[index].status,
                               !.ok = r.ok]
       /\ UNCHANGED categories

\* ---------------------------------------------------------------- order form input
\* what the quantity field (input type number) can hold as text
QuantityInputs == {"", "0", "1", "1.5", "2"}

\* z.coerce.number() on the text of the field: Number(text).  In this part
\* a quantity is a JavaScript number counted in halves, 3 standing for 1.5
coerceNumber(text) ==
  CASE text = "1" -> 2
    [] text = "1.5" -> 3
    [] text = "2" -> 4
    [] OTHER -> 0

isInteger(halves) == halves % 2 = 0

\* the rows of the form as typed
FormRows == [productId : ProductIds \cup {""}, quantity : QuantityInputs]
FormValues == UNION { [1..n -> FormRows] : n \in 0..MaxItems }

\* productId: z.string().min(1); quantity: z.coerce.number().min(1)
transactionItemSchema(row) ==
  /\ row.productId # ""
  /\ coerceNumber(row.quantity) >= 2

\* items: z.array(transactionItemSchema).min(1)
formSchema(items) ==
  /\ Len(items) >= 1
  /\ \A i \in 1..Len(items) : transactionItemSchema(items[i])

\* form.handleSubmit(onSubmit) of an order (type out) by the admin: onSubmit
\* runs on values that pass the schema
HandleSubmit(items) ==
  LET formProds == formProducts("out", products)
      newItems ==
        [ i \in 1..Len(items) |->
            [ productId |-> items[i].productId,
              quantity |-> coerceNumber(items[i].quantity),
              priceAtTransaction |-> priceOrZero(items[i].productId, formProds) ] ]
      newTransaction ==
        [ id |-> Len(transactions) + 1,
          type |-> "out",
          items |-> newItems,
          totalAmount |-> calculateTotal(newItems, formProds) \div 2,
          userId |-> "1",
          status |-> initialStatus("out"),
          deliveryMethodId |-> "",
          trackingNumber |-> "" ]
      insufficient ==
        \E i \in 1..Len(newItems) :
          \/ newItems[i].productId \notin DOMAIN products
          \/ 2 * products[newItems[i].productId].stock < newItems[i].quantity
      toast == IF ~ formSchema(items) THEN "Invalid form"
               ELSE IF insufficient THEN "Insufficient stock"
               ELSE "Order placed successfully"
  IN
    /\ last' = [NoOp EXCEPT !.op = "handleSubmit", !.type = "out",
                            !.id = IF toast = "Order placed successfully"
                                     THEN newTransaction.id ELSE 0,
                            !.ok = (toast = "Order placed successfully"),
                            !.toast = toast]
    /\ IF toast = "Order placed successfully"
         THEN /\ transactions' = Append(transactions, newTransaction)
              /\ netRuns' = Append(netRuns, 0)
         ELSE UNCHANGED <<transactions, netRuns>>
    /\ before' = products
    /\ UNCHANGED <<categories, products>>

\* ---------------------------------------------------------------- specifications
admin == CHOOSE u \in Users : u.role = "admin"

\* the form submitted to the storage module alone, which reads neither
\* userId nor deliveryMethodId
SubmitRecord ==
  /\ Len(transactions) < MaxRecords
  /\ \E currentUser \in {admin, NoUser}, type \in TransactionType,
        items \in ItemLists :
       OnSubmit(currentUser, type, items, IF type = "in" THEN "" ELSE "1")
  /\ UNCHANGED views

CallUpdateTransactionStatus ==
  /\ \E id \in 1..(MaxRecords + 1), status \in TransactionStatus :
       UpdateTransactionStatus(id, status)
  /\ UNCHANGED views

CallUpdateTransaction ==
  /\ \E index \in 1..MaxRecords, status \in TransactionStatus,
        trackingNumber \in TrackingNumbers :
       UpdateTransaction(index, status, trackingNumber)
  /\ UNCHANGED views

CallUpdateUnstoredTransaction ==
  /\ \E id \in 1..(MaxRecords + 1), type \in TransactionType,
        status \in TransactionStatus :
       UpdateUnstoredTransaction(id, type, status)
  /\ UNCHANGED views

RemoveProduct ==
  /\ \E productId \in ProductIds : DeleteProduct(productId)
  /\ UNCHANGED views

\* the storage module driven through its exported functions
Next ==
  \/ SubmitRecord
  \/ CallUpdateTransactionStatus
  \/ CallUpdateTransaction
  \/ CallUpdateUnstoredTransaction
  \/ RemoveProduct

Spec == Init /\ [][Next]_vars

\* inbound records are entered on the admin pages, orders on the admin and
\* the user pages
SubmitForm ==
  /\ Len(transactions) < MaxOrders
  /\ \E currentUser \in Actors, type \in TransactionType, items \in ItemLists,
        deliveryMethodId \in DeliveryMethodIds :
       /\ type = "in" => currentUser.role # "user"
       /\ OnSubmit(currentUser, type, items,
                   IF type = "in" THEN "" ELSE deliveryMethodId)
  /\ UNCHANGED views

\* the dialog opened on a stored record by the current user
Shown(currentUser, index) ==
  /\ currentUser \in Actors
  /\ index \in 1..Len(transactions)

ClickConfirmPayment ==
  /\ \E currentUser \in Actors, index \in 1..MaxOrders :
       Shown(currentUser, index) /\ ConfirmPayment(currentUser, transactions[index])
  /\ UNCHANGED views

ClickProcessOrder ==
  /\ \E currentUser \in Actors, index \in 1..MaxOrders :
       Shown(currentUser, index) /\ ProcessOrder(currentUser, transactions[index])
  /\ UNCHANGED views

ClickMarkAsReady ==
  /\ \E currentUser \in Actors, index \in 1..MaxOrders :
       Shown(currentUser, index) /\ MarkAsReady(currentUser, transactions[index])
  /\ UNCHANGED views

ClickMarkAsShipping ==
  /\ \E currentUser \in Actors, index \in 1..MaxOrders,
        trackingNumber \in TrackingInputs :
       /\ Shown(currentUser, index)
       /\ MarkAsShipping(currentUser, transactions[index], trackingNumber)
  /\ UNCHANGED views

ClickCompleteOrder ==
  /\ \E currentUser \in Actors, index \in 1..MaxOrders :
       Shown(currentUser, index) /\ CompleteOrder(currentUser, transactions[index])
  /\ UNCHANGED views

ClickCancelOrder ==
  /\ \E currentUser \in Actors, index \in 1..MaxOrders :
       Shown(currentUser, index) /\ CancelOrder(currentUser, transactions[index])
  /\ UNCHANGED views

\* the application driven through its screens by one session, the dialog
\* showing the stored record
NextUI ==
  \/ SubmitForm
  \/ ClickConfirmPayment
  \/ ClickProcessOrder
  \/ ClickMarkAsReady
  \/ ClickMarkAsShipping
  \/ ClickCompleteOrder
  \/ ClickCancelOrder
  \/ RemoveProduct

SpecUI == Init /\ [][NextUI]_vars

\* the category table offers the stored categories
ClickDeleteCategory ==
  /\ \E categoryId \in categories : HandleDelete(categoryId)
  /\ UNCHANGED views

SubmitCategoryForm ==
  /\ \E categoryId \in CategoryIds \ categories : AddCategory(categoryId)
  /\ UNCHANGED views

\* the product form on a stored product or on a new one; it offers the
\* stored categories, and the shop keeps its product codes distinct
SubmitProductForm ==
  /\ \E productId \in (DOMAIN products) \cup {""}, values \in ProductValues :
       /\ productId = "" => DOMAIN products # ProductIds
       /\ values.categoryId \in categories
       /\ \A q \in (DOMAIN products) \ {productId} :
            products[q].code # values.code
       /\ ProductFormOnSubmit(productId, values)
  /\ UNCHANGED views

\* an import file of one row; a category name the file does not resolve
\* reads as the first default category
ImportProducts ==
  /\ \E row \in ProductValues :
       /\ row.categoryId \in categories \cup {"1"}
       /\ ( \A q \in DOMAIN products : products[q].code # row.code )
            => DOMAIN products # ProductIds
       /\ ProductImportOnSubmit(<<row>>)
  /\ UNCHANGED views

\* the catalog pages of the admin
NextCatalog ==
  \/ ClickDeleteCategory
  \/ SubmitCategoryForm
  \/ SubmitProductForm
  \/ ImportProducts
  \/ RemoveProduct

SpecCatalog == Init /\ [][NextCatalog]_vars

\* the order form shown to any account, with any stored delivery method
\* selected or none
SubmitPriced ==
  /\ Len(transactions) < MaxRecords
  /\ \E currentUser \in Users, type \in TransactionType,
        items \in ItemLists, deliveryMethodId \in {"", "1", "2", "3"} :
       /\ type = "in" => currentUser.role # "user"
       /\ OnSubmit(currentUser, type, items,
                   IF type = "in" THEN "" ELSE deliveryMethodId)
  /\ UNCHANGED views

\* the product form changing the price of a stored product
EditPrice ==
  /\ \E productId \in DOMAIN products, price \in Prices :
       ProductFormOnSubmit(productId,
         [ code |-> products[productId].code,
           categoryId |-> products[productId].categoryId,
           price |-> price,
           stock |-> products[productId].stock ])
  /\ UNCHANGED views

\* orders priced at creation, moved through their lifecycle while the
\* catalog prices change
NextPricing ==
  \/ SubmitPriced
  \/ EditPrice
  \/ ClickConfirmPayment
  \/ ClickProcessOrder
  \/ ClickMarkAsReady
  \/ ClickMarkAsShipping
  \/ ClickCompleteOrder
  \/ ClickCancelOrder

SpecPricing == Init /\ [][NextPricing]_vars

\* the statuses of the older, simpler lifecycle
LegacyStatus == {"pending", "completed", "cancelled"}

CallLegacyAddTransaction ==
  /\ Len(transactions) < MaxRecords
  /\ \E type \in TransactionType, items \in ItemLists,
        status \in {"pending", "completed"} :
       LegacyAddTransaction(type, items, status)
  /\ UNCHANGED views

CallLegacyUpdateTransaction ==
  /\ \E index \in 1..MaxRecords, status \in LegacyStatus :
       LegacyUpdateTransaction(index, status)
  /\ UNCHANGED views

\* the legacy storage module driven through its exported functions
NextLegacy ==
  \/ CallLegacyAddTransaction
  \/ CallLegacyUpdateTransaction

SpecLegacy == Init /\ [][NextLegacy]_vars

\* a click on one of the buttons the dialog shows
Advance ==
  \/ ClickConfirmPayment
  \/ ClickProcessOrder
  \/ ClickMarkAsReady
  \/ ClickMarkAsShipping
  \/ ClickCompleteOrder
  \/ ClickCancelOrder

NextProgress ==
  \/ SubmitPriced
  \/ ClickConfirmPayment
  \/ ClickProcessOrder
  \/ ClickMarkAsReady
  \/ ClickMarkAsShipping
  \/ ClickCompleteOrder
  \/ ClickCancelOrder
  \/ RemoveProduct

\* the screens used by an owner and an admin who do not leave an order
\* alone for ever while the dialog offers them a button
SpecProgress == Init /\ [][NextProgress]_vars /\ WF_vars(Advance)

\* a transactions page (re)loading its list from the store
LoadTransactions ==
  /\ \E id \in Sessions :
       /\ views[id] # transactions
       /\ views' = [views EXCEPT ![id] = transactions]
  /\ UNCHANGED <<categories, products, transactions, netRuns, last, before>>

\* the dialog opened on a row of the list the session loaded; after the
\* write the page of that session reloads its list
SessionConfirmPayment ==
  \E id \in Sessions, index \in 1..MaxRecords :
    /\ index <= Len(views[id])
    /\ ConfirmPayment(userOf(id), views[id][index])
    /\ views' = [views EXCEPT ![id] = transactions']

SessionProcessOrder ==
  \E id \in Sessions, index \in 1..MaxRecords :
    /\ index <= Len(views[id])
    /\ ProcessOrder(userOf(id), views[id][index])
    /\ views' = [views EXCEPT ![id] = transactions']

SessionMarkAsReady ==
  \E id \in Sessions, index \in 1..MaxRecords :
    /\ index <= Len(views[id])
    /\ MarkAsReady(userOf(id), views[id][index])
    /\ views' = [views EXCEPT ![id] = transactions']

SessionMarkAsShipping ==
  \E id \in Sessions, index \in 1..MaxRecords,
     trackingNumber \in TrackingInputs :
    /\ index <= Len(views[id])
    /\ MarkAsShipping(userOf(id), views[id][index], trackingNumber)
    /\ views' = [views EXCEPT ![id] = transactions']

SessionCompleteOrder ==
  \E id \in Sessions, index \in 1..MaxRecords :
    /\ index <= Len(views[id])
    /\ CompleteOrder(userOf(id), views[id][index])
    /\ views' = [views EXCEPT ![id] = transactions']

SessionCancelOrder ==
  \E id \in Sessions, index \in 1..MaxRecords :
    /\ index <= Len(views[id])
    /\ CancelOrder(userOf(id), views[id][index])
    /\ views' = [views EXCEPT ![id] = transactions']

\* two sessions on one store, each acting on the list it loaded
NextSessions ==
  \/ SubmitPriced
  \/ LoadTransactions
  \/ SessionConfirmPayment
  \/ SessionProcessOrder
  \/ SessionMarkAsReady
  \/ SessionMarkAsShipping
  \/ SessionCompleteOrder
  \/ SessionCancelOrder

SpecSessions == Init /\ [][NextSessions]_vars

SubmitTypedOrder ==
  /\ Len(transactions) < MaxRecords
  /\ \E items \in FormValues : HandleSubmit(items)
  /\ UNCHANGED views

\* the order form filled in by hand and submitted
NextForm ==
  \/ SubmitTypedOrder
  \/ RemoveProduct

SpecForm == Init /\ [][NextForm]_vars

\* ---------------------------------------------------------------- properties
\* the outbound transition table
Edges ==
  { <<"pending", "payment_confirmed">>, <<"payment_confirmed", "processing">>,
    <<"processing", "ready_for_pickup">>, <<"processing", "shipping">>,
    <<"ready_for_pickup", "completed">>, <<"shipping", "completed">>,
    <<"pending", "cancelled">>, <<"payment_confirmed", "cancelled">>,
    <<"processing", "cancelled">> }

\* this step is a successful write of the stored transaction at index
Wrote(index) ==
  /\ index \in 1..Len(transactions)
  /\ last'.op \in WriteOps /\ last'.ok
  /\ last'.id = transactions[index].id

\* C1: for an out transaction the runs of updateStockFromTransaction minus
\* the runs of reverseTransactionStockEffects are 1 exactly when its stored
\* status is completed and 0 otherwise; creating it, writing it from one
\* status other than completed to another, and writing a completed record as
\* completed again change no product's stock.
C1_StockEffectOnce ==
  [][ /\ \A i \in 1..Len(transactions') :
           transactions'[i].type = "out" =>
             netRuns'[i] = IF transactions'[i].status = "completed" THEN 1 ELSE 0
      /\ ( last'.op = "onSubmit" /\ last'.type = "out" ) => products' = products
      /\ \A i \in 1..Len(transactions) :
           ( /\ Wrote(i)
             /\ transactions[i].type = "out"
             /\ (transactions[i].status = "completed")
                  = (transactions'[i].status = "completed") )
           => products' = products
    ]_vars

\* an out record completed by one write and then written as completed again
C1_Witness ==
  /\ Len(transactions) = 1
  /\ transactions[1].type = "out" /\ transactions[1].status = "completed"
  /\ last.op \in WriteOps /\ last.ok /\ last.from = "completed"
  /\ netRuns[1] = 1
  /\ before = products

\* C2: an updateTransactionStatus call that changed the status of an out
\* transaction moved it along an edge of the outbound transition table (a
\* call for any other edge fails and changes nothing).
C2_OnlyTableEdges ==
  LET status == transactions[findIndex(transactions, last.id)].status IN
    ( /\ last.op = "updateTransactionStatus" /\ last.ok
      /\ last.type = "out"
      /\ status # last.from )
    => <<last.from, status>> \in Edges

\* C3: every stored product's stock is >= 0.
C3_NonNegativeStock ==
  \A p \in DOMAIN products : products[p].stock >= 0

\* a decrement that hit the floor: the ledger ran and a product is at 0
C3_Witness ==
  /\ last.clamped
  /\ \E p \in DOMAIN products : products[p].stock = 0

\* C4: a submitted out order is stored only if every line names a stored
\* product whose stock is >= the line's quantity; a submission that fails
\* this is rejected and leaves the transaction and product collections as
\* they were; a submitted in transaction is never rejected for stock.
C4_CreationGated ==
  [][ last'.op = "onSubmit" =>
        /\ ( last'.ok /\ last'.type = "out" ) =>
             /\ Len(transactions') = Len(transactions) + 1
             /\ Sufficient(transactions'[Len(transactions')].items, products)
        /\ ( last'.type = "out" /\ ~ last'.sufficient ) => ~ last'.ok
        /\ ~ last'.ok => ( transactions' = transactions /\ products' = products )
        /\ last'.type = "in" => last'.toast # "Insufficient stock"
    ]_vars

\* an order turned down by the stock check
C4_Witness ==
  /\ last.op = "onSubmit" /\ last.type = "out"
  /\ ~ last.ok /\ ~ last.sufficient
  /\ last.toast = "Insufficient stock"

\* C5: when an out order is completed, either every line's quantity is
\* deducted in full from its product or no product's stock changes.
C5_AllOrNothing ==
  [][ \A i \in 1..Len(transactions) :
        ( /\ Wrote(i)
          /\ transactions[i].type = "out"
          /\ transactions[i].status # "completed"
          /\ transactions'[i].status = "completed" )
        => \/ products' = products
           \/ /\ \A k \in 1..Len(transactions[i].items) :
                   transactions[i].items[k].productId \in DOMAIN products
              /\ \A p \in DOMAIN products :
                   products'[p].stock
                     = products[p].stock - Total(transactions[i].items, p)
    ]_vars

\* the statuses an actor may move an out transaction to, by the gating rules
Allowed(transaction, currentUser) ==
  { target \in TransactionStatus :
      \/ /\ transaction.status = "pending" /\ target = "payment_confirmed"
         /\ currentUser.id = transaction.userId
      \/ /\ <<transaction.status, target>> \in
              { <<"payment_confirmed", "processing">>,
                <<"processing", "ready_for_pickup">>,
                <<"processing", "shipping">>,
                <<"ready_for_pickup", "completed">>,
                <<"shipping", "completed">> }
         /\ currentUser.role = "admin"
      \/ /\ transaction.status \in {"pending", "payment_confirmed", "processing"}
         /\ target = "cancelled"
         /\ ( currentUser.role = "admin"
              \/ currentUser.id = transaction.userId ) }

\* the statuses the buttons shown to an actor lead to
Offered(transaction, currentUser) ==
  { target \in TransactionStatus :
      \/ target = "payment_confirmed" /\ canConfirmPayment(transaction, currentUser)
      \/ target = "processing" /\ canProcess(transaction, currentUser)
      \/ target = "ready_for_pickup" /\ canMarkAsReady(transaction, currentUser)
      \/ target = "shipping" /\ canMarkAsShipping(transaction, currentUser)
      \/ target = "completed" /\ canCompleteTransaction(transaction, currentUser)
      \/ target = "cancelled" /\ canCancelTransaction(transaction, currentUser) }

\* C6: for every stored out transaction and every actor, each action offered
\* is one the gating rules allow: confirm payment to the owner on pending;
\* process, ready, ship and complete to an admin on their source statuses;
\* cancel to the owner or an admin on pending, payment_confirmed, processing.
C6_ActorGating ==
  \A i \in 1..Len(transactions) :
    transactions[i].type = "out" =>
      \A currentUser \in Actors :
        Offered(transactions[i], currentUser)
          \subseteq Allowed(transactions[i], currentUser)

\* an order of the admin in processing: the other user is offered nothing
C6_Witness ==
  /\ last.op = "processOrder" /\ last.ok
  /\ \E i \in 1..Len(transactions) :
       /\ transactions[i].id = last.id
       /\ transactions[i].status = "processing"
       /\ transactions[i].userId = "1"
       /\ Offered(transactions[i], [id |-> "2", role |-> "user"]) = {}
       /\ Offered(transactions[i], [id |-> "1", role |-> "admin"]) # {}

\* C7: cancelling an out order, which the dialog offers on pending,
\* payment_confirmed and processing only, leaves every product's stock as it
\* was.
C7_CancelKeepsStock ==
  [][ last'.op = "cancelOrder" =>
        /\ last'.ok
        /\ last'.from \in {"pending", "payment_confirmed", "processing"}
        /\ products' = products
    ]_vars

\* an order cancelled while in processing
C7_Witness ==
  /\ last.op = "cancelOrder" /\ last.ok /\ last.from = "processing"
  /\ last.type = "out"
  /\ \E i \in 1..Len(transactions) :
       transactions[i].id = last.id /\ transactions[i].status = "cancelled"

\* C8: a submitted in transaction that is stored is stored as completed and,
\* in the same step, every stored product's stock grows by the units the
\* lines name for it, once; no stock level makes the form turn an in
\* transaction down.
C8_InboundSingleStep ==
  [][ ( last'.op = "onSubmit" /\ last'.type = "in" ) =>
        /\ last'.ok = (last'.toast # "Authentication error")
        /\ last'.ok =>
             LET t == transactions'[Len(transactions')] IN
               /\ Len(transactions') = Len(transactions) + 1
               /\ t.type = "in" /\ t.status = "completed"
               /\ netRuns'[Len(transactions')] = 1
               /\ DOMAIN products' = DOMAIN products
               /\ \A p \in DOMAIN products :
                    products'[p].stock = products[p].stock + Total(t.items, p)
    ]_vars

\* an in transaction stored on a product that had no stock
C8_Witness ==
  /\ last.op = "onSubmit" /\ last.type = "in" /\ last.ok
  /\ \E p \in DOMAIN products :
       /\ before[p].stock = 0
       /\ products[p].stock = Total(transactions[Len(transactions)].items, p)
       /\ products[p].stock > 0

\* C9: when a write moves a transaction to completed without hitting the
\* floor of 0 and the next write moves it away from completed, every
\* product's stock is back at its value before the completion.
C9_RoundTrip ==
  [][ last'.after = "exact" => products' = before ]_vars

\* an out record completed and reopened, the stock having changed in between
C9_Witness ==
  /\ last.after = "exact" /\ last.type = "out"
  /\ \E p \in DOMAIN products :
       Total(transactions[findIndex(transactions, last.id)].items, p) > 0

\* C10: for an out order of one line (p, q): a step of its lifecycle other
\* than the completion leaves the stock of p as it was; its completion on
\* stock q leaves stock 0; and no out order is accepted with a line on a
\* product whose stock is 0.
C10_Depletion ==
  [][ /\ \A i \in 1..Len(transactions) :
           ( /\ Wrote(i)
             /\ transactions[i].type = "out"
             /\ Len(transactions[i].items) = 1 )
           => LET p == transactions[i].items[1].productId
                  q == transactions[i].items[1].quantity
              IN p \in DOMAIN products =>
                   /\ last'.op # "completeOrder" =>
                        products'[p].stock = products[p].stock
                   /\ ( last'.op = "completeOrder" /\ products[p].stock = q ) =>
                        products'[p].stock = 0
      /\ ( last'.op = "onSubmit" /\ last'.type = "out" /\ last'.ok ) =>
           LET t == transactions'[Len(transactions')] IN
             \A k \in 1..Len(t.items) :
               /\ t.items[k].productId \in DOMAIN products
               /\ products[t.items[k].productId].stock # 0
    ]_vars

\* the whole stock of a product sold by one completed order, and a later
\* order turned down
C10_Witness ==
  /\ Len(transactions) = 1
  /\ transactions[1].type = "out" /\ transactions[1].status = "completed"
  /\ Len(transactions[1].items) = 1
  /\ LET p == transactions[1].items[1].productId IN
       /\ p \in DOMAIN products
       /\ products[p].stock = 0
  /\ netRuns[1] = 1
  /\ last.op = "onSubmit" /\ last.type = "out" /\ ~ last.ok
  /\ last.toast = "Insufficient stock"

\* the pick-up methods among the stored delivery methods, and the method
\* ids a stored order can carry: none, a stored method, one since deleted
PickupMethodIds == {"1"}
CarriedMethodIds == {"", "1", "2", "3", "9"}

\* this step moved the stored transaction at index to status
Entered(index, status) ==
  /\ index \in 1..Len(transactions)
  /\ transactions[index].status # status
  /\ transactions'[index].status = status

C12_TrackingNumber ==
  [][ \A i \in 1..Len(transactions') :
        LET t == transactions'[i] IN
          /\ ( t.type = "out" /\ t.status = "shipping" ) =>
                t.trackingNumber # ""
          /\ Entered(i, "shipping") =>
                /\ transactions[i].trackingNumber = ""
                /\ t.trackingNumber # ""
                /\ last'.op = "markAsShipping"
    ]_vars

\* an order shipped through the shipping form
C12_Witness ==
  /\ last.op = "markAsShipping" /\ last.ok /\ last.from = "processing"
  /\ \E i \in 1..Len(transactions) :
       /\ transactions[i].id = last.id
       /\ transactions[i].type = "out"
       /\ transactions[i].status = "shipping"
       /\ transactions[i].trackingNumber \in TrackingNumbers

\* C13: every stored in transaction is completed, and the dialog offers no
\* actor any action on it: no confirm, process, ready, ship, complete or
\* cancel.
C13_InboundFinal ==
  \A i \in 1..Len(transactions) :
    transactions[i].type = "in" =>
      /\ transactions[i].status = "completed"
      /\ \A currentUser \in Actors :
           Offered(transactions[i], currentUser) = {}

\* an in record of the admin stored beside an order the admin can act on
C13_Witness ==
  \E i, j \in 1..Len(transactions) :
    /\ transactions[i].type = "in" /\ transactions[i].userId = admin.id
    /\ Offered(transactions[i], admin) = {}
    /\ transactions[j].type = "out"
    /\ Offered(transactions[j], admin) # {}

\* C14: deleting a stored category that some stored product references
\* fails and leaves the categories as they were; deleting one that no
\* product references succeeds and removes that category and no other; the
\* products are untouched either way.
C14_CategoryIntegrity ==
  [][ last'.op = "deleteCategory" =>
        LET categoryId == last'.arg
            referenced == \E p \in DOMAIN products :
                            products[p].categoryId = categoryId
        IN /\ categoryId \in categories
           /\ referenced => ( ~ last'.ok /\ categories' = categories )
           /\ ~ referenced =>
                ( last'.ok /\ categories' = categories \ {categoryId} )
           /\ products' = products
    ]_vars

\* the category the products started in was deleted once they had been
\* moved to the other category
C14_Witness ==
  /\ last.op = "deleteCategory" /\ last.ok /\ last.arg = "1"
  /\ "1" \notin categories /\ "2" \in categories
  /\ DOMAIN products # {}
  /\ \A p \in DOMAIN products : products[p].categoryId = "2"

\* C18: a step changes the stock of a product that is stored before and
\* after it only if the step is one that runs the ledger (the order form
\* storing a record, or a write of a transaction); the product form's edit
\* and the import on a matching code leave the stock as it was.
C18_StockLedgerOnly ==
  [][ \A p \in (DOMAIN products) \cap (DOMAIN products') :
        products'[p].stock # products[p].stock =>
          last'.op \in WriteOps \cup {"onSubmit"}
    ]_vars

\* C15: no step changes the id, type, userId, items (productId, quantity,
\* priceAtTransaction), totalAmount or delivery method of a stored
\* transaction, whatever status it moves to and whatever the catalog prices
\* have become; the tracking number changes only in a step entering
\* shipping.
C15_CreationFrame ==
  [][ \A i \in 1..Len(transactions) :
        /\ i \in 1..Len(transactions')
        /\ LET old == transactions[i]
               new == transactions'[i]
           IN /\ new.id = old.id
              /\ new.type = old.type
              /\ new.userId = old.userId
              /\ new.items = old.items
              /\ new.totalAmount = old.totalAmount
              /\ new.deliveryMethodId = old.deliveryMethodId
              /\ new.trackingNumber # old.trackingNumber =>
                   Entered(i, "shipping")
    ]_vars

\* an order completed after the price of one of its products was changed
C15_Witness ==
  /\ last.op = "completeOrder" /\ last.ok
  /\ \E i \in 1..Len(transactions) :
       LET t == transactions[i] IN
         /\ t.id = last.id /\ t.status = "completed"
         /\ \E k \in 1..Len(t.items) :
              /\ t.items[k].productId \in DOMAIN products
              /\ t.items[k].priceAtTransaction
                   # products[t.items[k].productId].price

\* the tier of the account with this id
tierOf(userId) == (CHOOSE u \in Users : u.id = userId).type

RECURSIVE LineSum(_)
LineSum(items) ==
  IF items = <<>> THEN 0
  ELSE Head(items).priceAtTransaction * Head(items).quantity
       + LineSum(Tail(items))

\* C17: the totalAmount of every transaction the form stores is the sum over
\* its lines of priceAtTransaction times quantity, plus, for an out
\* transaction with a delivery method selected, the cost of that method;
\* nothing is added for an in transaction.
C17_TotalAmount ==
  [][ ( last'.op = "onSubmit" /\ last'.ok ) =>
        LET t == transactions'[Len(transactions')] IN
          t.totalAmount
            = LineSum(t.items)
              + ( IF t.type = "out" /\ t.deliveryMethodId # ""
                    THEN deliveryMethodCost(t.deliveryMethodId)
                    ELSE 0 )
    ]_vars

\* an order of two lines delivered by a courier that charges
C17_Witness ==
  /\ last.op = "onSubmit" /\ last.ok /\ last.type = "out"
  /\ LET t == transactions[Len(transactions)] IN
       /\ Len(t.items) = 2
       /\ LineSum(t.items) > 0
       /\ deliveryMethodCost(t.deliveryMethodId) > 0
       /\ t.totalAmount = LineSum(t.items) + deliveryMethodCost(t.deliveryMethodId)

\* C19: every step leaves each stored transaction at its place in the list,
\* under the same id; the list grows by at most one record, appended at its
\* end by the order form, and a write of a transaction leaves its length
\* as it was.
C19_AppendOnly ==
  [][ /\ Len(transactions') >= Len(transactions)
      /\ Len(transactions') <= Len(transactions) + 1
      /\ \A i \in 1..Len(transactions) :
           transactions'[i].id = transactions[i].id
      /\ Len(transactions') = Len(transactions) + 1 => last'.op = "onSubmit"
      /\ last'.op \in WriteOps => Len(transactions') = Len(transactions)
    ]_vars

\* the first of two stored transactions rewritten where it stands
C19_Witness ==
  /\ Len(transactions) = 2
  /\ last.op \in WriteOps /\ last.ok
  /\ last.id = transactions[1].id
  /\ transactions[1].id # transactions[2].id
  /\ transactions[1].status = "cancelled"

\* the lines name stored products, each product once
DistinctStored(items, prods) ==
  /\ \A k \in 1..Len(items) : items[k].productId \in DOMAIN prods
  /\ \A j, k \in 1..Len(items) :
       items[j].productId = items[k].productId => j = k

\* C20: when an out order that the form accepted is completed, each of its
\* products still holds at least the quantity ordered, and the completion
\* deducts that quantity in full (the floor of 0 is not hit).  Stated for
\* orders whose lines name distinct products that are still stored, so that
\* a shortfall can only come from what other transactions took.
C20_NoOverselling ==
  [][ \A i \in 1..Len(transactions) :
        ( /\ Wrote(i)
          /\ transactions[i].type = "out"
          /\ Entered(i, "completed")
          /\ DistinctStored(transactions[i].items, products) )
        => \A k \in 1..Len(transactions[i].items) :
             LET p == transactions[i].items[k].productId
                 q == transactions[i].items[k].quantity
             IN /\ products[p].stock >= q
                /\ products'[p].stock = products[p].stock - q
    ]_vars

\* C21: an out order that the stock check accepted asks, summed over its
\* lines on one product, for no more units than that product held when the
\* order was accepted.
C21_AggregateSufficiency ==
  [][ ( last'.op = "onSubmit" /\ last'.ok /\ last'.type = "out" ) =>
        LET accepted == transactions'[Len(transactions')]
        IN \A p \in DOMAIN products :
             Total(accepted.items, p) <= products[p].stock
    ]_vars

\* C22: under the legacy storage module every stored transaction has had
\* its items applied to the stock at most once, and a completed one exactly
\* once: a record added as pending and then completed is not applied a second
\* time.
C22_LegacyAppliedOnce ==
  \A i \in 1..Len(transactions) :
    /\ netRuns[i] <= 1
    /\ transactions[i].status = "completed" => netRuns[i] = 1

TerminalStatus == {"completed", "cancelled"}

Rank(status) ==
  CASE status = "pending" -> 0
    [] status = "payment_confirmed" -> 1
    [] status = "processing" -> 2
    [] status \in {"ready_for_pickup", "shipping"} -> 3
    [] OTHER -> 4

C25_StaleViewsOnEdges ==
  [][ \A i \in 1..Len(transactions) :
        transactions[i].type = "out" =>
          /\ transactions'[i].status # transactions[i].status
             => <<transactions[i].status, transactions'[i].status>> \in Edges
          /\ transactions[i].status = "completed"
             => netRuns'[i] = netRuns[i]
    ]_vars

\* C26: a call of updateTransactionStatus or updateTransaction naming an id
\* that no stored transaction has returns false and leaves the transaction
\* collection and the product collection as they were.
C26_UnknownId ==
  [][ ( last'.op \in {"updateTransactionStatus", "updateTransaction"}
        /\ findIndex(transactions, last'.id) = 0 )
      => /\ ~ last'.ok
         /\ transactions' = transactions
         /\ products' = products
    ]_vars

\* updateTransaction called with the id after the stored one, a product
\* being in stock
C26_Witness ==
  /\ Len(transactions) = 1
  /\ last.op = "updateTransaction" /\ ~ last.ok
  /\ last.id = 2 /\ findIndex(transactions, last.id) = 0
  /\ \E p \in DOMAIN products : products[p].stock > 0

\* C27: every transaction stored through the order form has at least one
\* item, and every item's quantity is a whole number >= 1 (quantities are
\* counted in halves here).
C27_NonEmptyItems ==
  \A i \in 1..Len(transactions) :
    /\ Len(transactions[i].items) >= 1
    /\ \A k \in 1..Len(transactions[i].items) :
         /\ isInteger(transactions[i].items[k].quantity)
         /\ transactions[i].items[k].quantity >= 2

\* C28: every stored product's categoryId names a stored category.
C28_NoDanglingCategory ==
  \A p \in DOMAIN products : products[p].categoryId \in categories

TypeOK ==
  /\ categories \subseteq CategoryIds
  /\ DOMAIN products \subseteq ProductIds
  /\ \A p \in DOMAIN products : products[p].stock \in Nat
  /\ Len(netRuns) = Len(transactions)

====
